---- MODULE Spec2Model ----
(***************************************************************************)
(* Shadow-AI toolkit: the amnesty-program lifecycle (AmnestyProgramService *)
(* over AmnestyProgramRepository) and the detection pipeline               *)
(* (ShadowAIDetectionService over the provider registry).                  *)
(***************************************************************************)
EXTENDS Integers, Sequences, FiniteSets, TLC

(***************************************************************************)
(* Bounds of the model.                                                    *)
(***************************************************************************)
MaxTime == 2
MaxPrograms == 2
MaxGrace == 1
MaxInflight == 2
MaxCalls == 3

Tenants == {"t1", "t2"}

\* Optional values (Python's None): <<>> is None, <<x>> is the value x.
None == <<>>
Some(x) == <<x>>
Val(o) == o[1]

\* cancel_amnesty(reason: str | None): the reason a cancel call supplies
Reasons == {Some("Policy change")}

\* grace_period_days handed to initiate_amnesty
GraceChoices == 1..MaxGrace

VARIABLES
    now,                      \* datetime.now(tz=utc), in days
    programs,                 \* table sat_amnesty_programs; a row's id is its index
    update_status_signature,  \* how update_status binds the service's keyword call
    calls,                    \* requests between their storage read and their return
    last,                     \* the most recently completed service call
    ncalls,                   \* service calls started so far
    batch,                    \* detection: the submitted batch
    detections,               \* detection: None, or the list the pipeline returned
    request,                  \* detection: the pipeline called and the service's tenant
    call,                     \* a call of a function without stored state: its name and arguments
    ret,                      \* None, or what that call returned
    discoveries,              \* table sat_discoveries; a row's id is its index
    plans,                    \* table sat_migration_plans; a row's id is its index
    events,                   \* what the discovery services published, in order
    dlast,                    \* the most recently completed discovery service call
    dcalls                    \* discovery service calls made so far

vars == <<now, programs, update_status_signature, calls, last, ncalls, batch, detections, request,
          call, ret, discoveries, plans, events, dlast, dcalls>>
amnestyVars == <<now, programs, update_status_signature, calls, last, ncalls>>
detectVars == <<batch, detections, request>>
callVars == <<call, ret>>
discoveryVars == <<discoveries, plans, events, dlast, dcalls>>

(***************************************************************************)
(* AmnestyProgramRepository                                                *)
(***************************************************************************)

\* AmnestyProgramRepository.create: one new row; affected_user_count keeps its
\* default unless the caller passes it; created_at/updated_at are the insert time.
NewProgram(tenant_id, grace_period_days, grace_period_expires_at, status, affected_user_count, at) ==
    [tenant_id |-> tenant_id,
     grace_period_days |-> grace_period_days,
     grace_period_expires_at |-> Some(grace_period_expires_at),
     status |-> status,
     affected_user_count |-> affected_user_count,
     enforcement_started_at |-> None,
     cancellation_reason |-> None,
     created_at |-> at,
     updated_at |-> at]

Create(store, row) == Append(store, row)

\* The statuses the query of get_active_for_tenant selects.
ActiveFilter == {"active", "grace_period", "enforcing"}

\* get_active_for_tenant: WHERE tenant_id = t AND status IN (...) ORDER BY
\* created_at DESC LIMIT 1.  The result is the set of ids the database may
\* return: empty (None), or the rows with the greatest created_at (rows with
\* equal created_at are not ordered by the query).
\* Variant: the query without its tenant filter.
GetActiveAnyTenant(store, tenant_id) ==
    LET cand == {i \in 1..Len(store) : store[i].status \in ActiveFilter}
    IN {i \in cand : \A j \in cand : store[j].created_at <= store[i].created_at}

GetActiveForTenant(store, tenant_id) ==
    LET cand == {i \in 1..Len(store) :
                    /\ store[i].tenant_id = tenant_id
                    /\ store[i].status \in ActiveFilter}
    IN {i \in cand : \A j \in cand : store[j].created_at <= store[i].created_at}

\* update_status: UPDATE ... WHERE id = program_id, VALUES status, updated_at,
\* and the two optional columns only when they are not None.
UpdateStatus(store, program_id, status, enforcement_started_at, cancellation_reason, at) ==
    [store EXCEPT ![program_id] =
        [@ EXCEPT !.status = status,
                  !.updated_at = at,
                  !.enforcement_started_at =
                      IF enforcement_started_at # None THEN enforcement_started_at ELSE @,
                  !.cancellation_reason =
                      IF cancellation_reason # None THEN cancellation_reason ELSE @]]

\* update_status(self, program_id, tenant_id, status, ...): tenant_id has no
\* default.  A call that passes no tenant_id binds only when the signature in
\* force does not require it; otherwise Python raises TypeError before the body.
Binds(signature, tenant_arg) ==
    tenant_arg # None \/ signature = "tenant_id_optional"

(***************************************************************************)
(* AmnestyProgramService                                                   *)
(***************************************************************************)

\* Variant: the expiry without the grace period added.
GraceExpiryNoDelta(at, grace_period_days) == at

\* initiate_amnesty: grace_expiry = now + timedelta(days=grace_period_days)
GraceExpiry(at, grace_period_days) == at + grace_period_days

\* Variant: every status the storage query selects counts as active.
IsActiveSelected(status) == status \in ActiveFilter

\* is_active=current_status in {"active", "grace_period"}
IsActive(status) == status \in {"active", "grace_period"}

\* Variant: the grace period counts as over at any time.
ExpiredAnytime(program, at) ==
    /\ program.status \in {"active", "grace_period"}
    /\ program.grace_period_expires_at # None

\* get_amnesty_status: the auto-transition condition
Expired(program, at) ==
    /\ program.status \in {"active", "grace_period"}
    /\ program.grace_period_expires_at # None
    /\ at >= Val(program.grace_period_expires_at)

\* The AmnestyStatus returned when get_active_for_tenant gave None.
NoneStatus(tenant_id) ==
    [tenant_id |-> tenant_id,
     program_id |-> None,
     status |-> "none",
     grace_period_days |-> 0,
     grace_period_expires_at |-> None,
     affected_user_count |-> 0,
     is_active |-> FALSE,
     enforcement_started_at |-> None]

\* The AmnestyStatus built from the program object that was read.
StatusOf(tenant_id, id, program, current_status) ==
    [tenant_id |-> tenant_id,
     program_id |-> Some(id),
     status |-> current_status,
     grace_period_days |-> program.grace_period_days,
     grace_period_expires_at |-> program.grace_period_expires_at,
     affected_user_count |-> program.affected_user_count,
     is_active |-> IsActive(current_status),
     enforcement_started_at |-> program.enforcement_started_at]

\* get_amnesty_status after its storage read: `read` is None or <<[id, row]>>,
\* the program object as it was read.  Gives the store, the result and the error.
GetAmnestyStatus(store, signature, tenant_id, read, at) ==
    IF read = None
    THEN [store |-> store, result |-> Some(NoneStatus(tenant_id)), raised |-> None]
    ELSE LET id == Val(read).id
             program == Val(read).row
         IN IF Expired(program, at)
            THEN IF Binds(signature, None)
                 THEN [store |-> UpdateStatus(store, id, "enforcing", Some(at), None, at),
                       result |-> Some(StatusOf(tenant_id, id, program, "enforcing")),
                       raised |-> None]
                 ELSE [store |-> store, result |-> None, raised |-> Some("TypeError")]
            ELSE [store |-> store,
                  result |-> Some(StatusOf(tenant_id, id, program, program.status)),
                  raised |-> None]

\* Variant: a missing program reported as an error.
CancelMissingRaises(store) ==
    [store |-> store, result |-> None, raised |-> Some("NotFoundError")]

\* cancel_amnesty, `if program is None`: warn and return None.
CancelMissing(store) ==
    [store |-> store, result |-> None, raised |-> None]

\* cancel_amnesty after its storage read.  The result is the row update_status
\* selects again after its UPDATE.
CancelAmnesty(store, signature, tenant_id, read, reason, at) ==
    IF read = None
    THEN CancelMissing(store)
    ELSE LET id == Val(read).id
         IN IF Binds(signature, None)
            THEN LET updated == UpdateStatus(store, id, "cancelled", None, reason, at)
                 IN [store |-> updated,
                     result |-> Some([id |-> id, row |-> updated[id]]),
                     raised |-> None]
            ELSE [store |-> store, result |-> None, raised |-> Some("TypeError")]

(***************************************************************************)
(* State machine of the amnesty lifecycle                                  *)
(***************************************************************************)
Idle == [op |-> "idle"]

NoCall == [op |-> "none", tenant_id |-> "t1", read |-> None, reason |-> None,
           at |-> 0, result |-> None, raised |-> None, changed |-> FALSE]

AmnestyInit ==
    /\ now = 0
    /\ programs = <<>>
    /\ update_status_signature \in {"tenant_id_required", "tenant_id_optional"}
    /\ calls = [i \in 1..MaxInflight |-> Idle]
    /\ last = NoCall
    /\ ncalls = 0

DetectIdle ==
    /\ batch = <<>>
    /\ detections = None
    /\ request = [method |-> "none", tenant_id |-> "t1"]

CallIdle ==
    /\ call = [fn |-> "none"]
    /\ ret = None

NoDiscoveryCall == [op |-> "none"]

DiscoveryIdle ==
    /\ discoveries = <<>>
    /\ plans = <<>>
    /\ events = <<>>
    /\ dlast = NoDiscoveryCall
    /\ dcalls = 0

\* The clock advances.
Tick ==
    /\ now < MaxTime
    /\ now' = now + 1
    /\ UNCHANGED <<programs, update_status_signature, calls, last, ncalls>>

\* initiate_amnesty(tenant_id, message, grace_period_days): one create().
InitiateAmnesty(t, g) ==
    /\ Len(programs) < MaxPrograms
    /\ ncalls < MaxCalls
    /\ ncalls' = ncalls + 1
    /\ LET row == NewProgram(t, g, GraceExpiry(now, g), "active", 0, now)
       IN /\ programs' = Create(programs, row)
          /\ last' = [op |-> "initiate_amnesty", tenant_id |-> t, read |-> None,
                      reason |-> None, at |-> now,
                      result |-> Some([id |-> Len(programs) + 1, row |-> row]),
                      raised |-> None, changed |-> TRUE]
    /\ UNCHANGED <<now, update_status_signature, calls>>

\* The storage read that opens get_amnesty_status and cancel_amnesty.
ReadOf(t) ==
    IF GetActiveForTenant(programs, t) = {}
    THEN {None}
    ELSE {Some([id |-> i, row |-> programs[i]]) : i \in GetActiveForTenant(programs, t)}

\* Request slots are interchangeable: a new request takes the first idle one.
FirstIdle(i) == calls[i] = Idle /\ \A j \in 1..(i - 1) : calls[j] # Idle

BeginGetAmnestyStatus(i, t) ==
    /\ FirstIdle(i)
    /\ ncalls < MaxCalls
    /\ ncalls' = ncalls + 1
    /\ \E r \in ReadOf(t) :
          calls' = [calls EXCEPT ![i] =
                       [op |-> "get_amnesty_status", tenant_id |-> t, read |-> r,
                        reason |-> None]]
    /\ UNCHANGED <<now, programs, update_status_signature, last>>

BeginCancelAmnesty(i, t, reason) ==
    /\ FirstIdle(i)
    /\ ncalls < MaxCalls
    /\ ncalls' = ncalls + 1
    /\ \E r \in ReadOf(t) :
          calls' = [calls EXCEPT ![i] =
                       [op |-> "cancel_amnesty", tenant_id |-> t, read |-> r,
                        reason |-> reason]]
    /\ UNCHANGED <<now, programs, update_status_signature, last>>

\* The rest of get_amnesty_status: now = datetime.now(), the transition, the return.
FinishGetAmnestyStatus(i) ==
    /\ calls[i].op = "get_amnesty_status"
    /\ LET c == calls[i]
           out == GetAmnestyStatus(programs, update_status_signature, c.tenant_id, c.read, now)
       IN /\ programs' = out.store
          /\ last' = [op |-> c.op, tenant_id |-> c.tenant_id, read |-> c.read,
                      reason |-> c.reason, at |-> now, result |-> out.result,
                      raised |-> out.raised, changed |-> (out.store # programs)]
    /\ calls' = [calls EXCEPT ![i] = Idle]
    /\ UNCHANGED <<now, update_status_signature, ncalls>>

\* The rest of cancel_amnesty: the update and the return.
FinishCancelAmnesty(i) ==
    /\ calls[i].op = "cancel_amnesty"
    /\ LET c == calls[i]
           out == CancelAmnesty(programs, update_status_signature, c.tenant_id, c.read,
                                c.reason, now)
       IN /\ programs' = out.store
          /\ last' = [op |-> c.op, tenant_id |-> c.tenant_id, read |-> c.read,
                      reason |-> c.reason, at |-> now, result |-> out.result,
                      raised |-> out.raised, changed |-> (out.store # programs)]
    /\ calls' = [calls EXCEPT ![i] = Idle]
    /\ UNCHANGED <<now, update_status_signature, ncalls>>

Init == AmnestyInit /\ DetectIdle /\ CallIdle /\ DiscoveryIdle

Next ==
    \/ Tick /\ UNCHANGED detectVars /\ UNCHANGED callVars /\ UNCHANGED discoveryVars
    \/ \E t \in Tenants, g \in GraceChoices : InitiateAmnesty(t, g) /\ UNCHANGED detectVars /\ UNCHANGED callVars /\ UNCHANGED discoveryVars
    \/ \E i \in 1..MaxInflight, t \in Tenants :
          BeginGetAmnestyStatus(i, t) /\ UNCHANGED detectVars /\ UNCHANGED callVars /\ UNCHANGED discoveryVars
    \/ \E i \in 1..MaxInflight, t \in Tenants, r \in Reasons :
          BeginCancelAmnesty(i, t, r) /\ UNCHANGED detectVars /\ UNCHANGED callVars /\ UNCHANGED discoveryVars
    \/ \E i \in 1..MaxInflight : FinishGetAmnestyStatus(i) /\ UNCHANGED detectVars /\ UNCHANGED callVars /\ UNCHANGED discoveryVars
    \/ \E i \in 1..MaxInflight : FinishCancelAmnesty(i) /\ UNCHANGED detectVars /\ UNCHANGED callVars /\ UNCHANGED discoveryVars

Spec == Init /\ [][Next]_vars

(***************************************************************************)
(* Amnesty lifecycle: the claims                                           *)
(***************************************************************************)
Terminal == {"enforcing", "cancelled"}
NonTerminal == {"active", "grace_period"}

ProgramsOf(t) == {i \in 1..Len(programs) : programs[i].tenant_id = t}

\* C1: once a program's stored status is enforcing or cancelled, no later call of
\* initiate, get_amnesty_status or cancel_amnesty changes that stored status.  A
\* later call is one that did not read the program before it became terminal.
C1_TerminalStatusesStay ==
    [][\A i \in 1..Len(programs) :
          (/\ programs[i].status \in Terminal
           /\ \/ last'.read = None
              \/ Val(last'.read).id # i
              \/ Val(last'.read).row.status \in Terminal)
          => programs'[i].status = programs[i].status]_vars

\* C2: every tenant has at most one program whose status is active or grace_period.
C2_OneNonTerminalPerTenant ==
    \A t \in Tenants :
        Cardinality({i \in ProgramsOf(t) : programs[i].status \in NonTerminal}) <= 1

\* C3: a get_amnesty_status call that read an active (or grace_period) program at
\* or after its expiry stores enforcing on it and returns enforcing, is_active false.
C3_ExpiredReadEnforces ==
    (/\ last.op = "get_amnesty_status"
     /\ last.read # None
     /\ Expired(Val(last.read).row, last.at))
    => /\ last.raised = None
       /\ last.result # None
       /\ programs[Val(last.read).id].status = "enforcing"
       /\ Val(last.result).status = "enforcing"
       /\ Val(last.result).is_active = FALSE

\* C4: get_active_for_tenant never returns a program whose status is enforcing or
\* cancelled, and returns nothing when all the tenant's programs are terminal.
C4_GetActiveExcludesTerminal ==
    \A t \in Tenants :
        /\ \A i \in GetActiveForTenant(programs, t) : programs[i].status \notin Terminal
        /\ (\A i \in ProgramsOf(t) : programs[i].status \in Terminal)
              => GetActiveForTenant(programs, t) = {}

\* C5: cancel_amnesty that read an active program stores cancelled on it, stores
\* the supplied reason, and returns that program with status cancelled.
C5_CancelActiveCancels ==
    (/\ last.op = "cancel_amnesty"
     /\ last.read # None
     /\ Val(last.read).row.status = "active")
    => /\ last.raised = None
       /\ last.result # None
       /\ programs[Val(last.read).id].status = "cancelled"
       /\ (last.reason # None
             => programs[Val(last.read).id].cancellation_reason = last.reason)
       /\ Val(last.result).id = Val(last.read).id
       /\ Val(last.result).row.status = "cancelled"

C7_NoProgramGivesNone ==
    /\ (last.op = "get_amnesty_status" /\ ProgramsOf(last.tenant_id) = {})
       => /\ last.raised = None
          /\ last.result # None
          /\ Val(last.result).status = "none"
          /\ Val(last.result).is_active = FALSE
          /\ Val(last.result).program_id = None
          /\ last.changed = FALSE
    /\ \A i \in 1..Len(programs) : programs[i].status # "none"

\* C7 witness: the status of a tenant without programs was read while another
\* tenant has one.
C7_Witness ==
    /\ last.op = "get_amnesty_status"
    /\ ProgramsOf(last.tenant_id) = {}
    /\ Len(programs) > 0
    /\ last.result # None
    /\ Val(last.result).status = "none"

\* C8: in every AmnestyStatus returned, is_active holds exactly when the returned
\* status is active or grace_period.
C8_IsActiveIffNonTerminal ==
    (last.op = "get_amnesty_status" /\ last.result # None)
    => (Val(last.result).is_active <=> Val(last.result).status \in NonTerminal)

\* C8 witness: an enforcing status was returned, with is_active false.
C8_Witness ==
    /\ last.op = "get_amnesty_status"
    /\ last.result # None
    /\ Val(last.result).status = "enforcing"
    /\ Val(last.result).is_active = FALSE

\* C9: an initiate_amnesty step adds exactly one program, for the tenant of the
\* call, with status active and expiry = time of the call + grace_period_days.
C9_InitiateCreatesOneActive ==
    [][(ncalls' = ncalls + 1 /\ calls' = calls)
        => /\ Len(programs') = Len(programs) + 1
           /\ SubSeq(programs', 1, Len(programs)) = programs
           /\ LET row == programs'[Len(programs')]
              IN /\ row.tenant_id = last'.tenant_id
                 /\ row.status = "active"
                 /\ row.grace_period_days \in GraceChoices
                 /\ row.grace_period_expires_at = Some(now + row.grace_period_days)]_vars

\* C9 witness: a program initiated at day 1 with the longest grace period.
C9_Witness ==
    /\ last.op = "initiate_amnesty"
    /\ last.at = 1
    /\ Val(last.result).row.status = "active"
    /\ Val(last.result).row.grace_period_expires_at = Some(1 + MaxGrace)
    /\ programs[Val(last.result).id] = Val(last.result).row

(***************************************************************************)
(* Strings (str.lower, str.strip, startswith, endswith, `in`)              *)
(***************************************************************************)
CharAt(s, i) == SubSeq(s, i, i)

UpperCase == "ABCDEFGHIJKLMNOPQRSTUVWXYZ"
LowerCase == "abcdefghijklmnopqrstuvwxyz"

LowerChar(c) ==
    IF \E k \in 1..Len(UpperCase) : CharAt(UpperCase, k) = c
    THEN CharAt(LowerCase, CHOOSE k \in 1..Len(UpperCase) : CharAt(UpperCase, k) = c)
    ELSE c

RECURSIVE Lower(_)
Lower(s) ==
    IF Len(s) = 0 THEN "" ELSE LowerChar(CharAt(s, 1)) \o Lower(SubSeq(s, 2, Len(s)))

Whitespace == {" ", "\t", "\n", "\r"}

RECURSIVE LStrip(_)
LStrip(s) ==
    IF Len(s) > 0 /\ CharAt(s, 1) \in Whitespace THEN LStrip(SubSeq(s, 2, Len(s))) ELSE s

RECURSIVE RStrip(_)
RStrip(s) ==
    IF Len(s) > 0 /\ CharAt(s, Len(s)) \in Whitespace
    THEN RStrip(SubSeq(s, 1, Len(s) - 1))
    ELSE s

Strip(s) == RStrip(LStrip(s))

StartsWith(s, prefix) ==
    Len(s) >= Len(prefix) /\ SubSeq(s, 1, Len(prefix)) = prefix

EndsWith(s, suffix) ==
    Len(s) >= Len(suffix) /\ SubSeq(s, Len(s) - Len(suffix) + 1, Len(s)) = suffix

\* frag in s
Contains(s, frag) ==
    \E i \in 1..(Len(s) - Len(frag) + 1) : SubSeq(s, i, i + Len(frag) - 1) = frag

(***************************************************************************)
(* Provider registry (core/providers.py)                                   *)
(***************************************************************************)

\* The exact entries of AI_PROVIDER_DOMAINS that the domains of this model can
\* reach; the source table holds further exact entries of the same form.
EXACT_AI_PROVIDER_DOMAINS ==
    ("api.openai.com" :> "openai") @@
    ("chat.openai.com" :> "openai") @@
    ("api.anthropic.com" :> "anthropic") @@
    ("claude.ai" :> "anthropic") @@
    ("bedrock-runtime.us-east-1.amazonaws.com" :> "aws-bedrock") @@
    ("api.mistral.ai" :> "mistral") @@
    ("api.groq.com" :> "groq")

\* The entries of AI_PROVIDER_DOMAINS that contain "*", in dictionary order.
WILDCARD_AI_PROVIDER_DOMAINS ==
    << [pattern |-> "*.openai.azure.com", provider |-> "azure-openai"],
       [pattern |-> "*.bedrock-runtime.*.amazonaws.com", provider |-> "aws-bedrock"] >>

\* Variant: a "*." pattern also matches its bare base.
WildcardMatchesBase(pattern, domain) ==
    IF StartsWith(pattern, "*.")
    THEN EndsWith(domain, SubSeq(pattern, 3, Len(pattern)))
    ELSE IF EndsWith(pattern, ".*")
         THEN StartsWith(domain, SubSeq(pattern, 1, Len(pattern) - 2) \o ".")
         ELSE FALSE

\* One pattern of the wildcard loop of resolve_provider.
WildcardMatches(pattern, domain) ==
    IF StartsWith(pattern, "*.")
    THEN LET suffix == SubSeq(pattern, 3, Len(pattern))
         IN EndsWith(domain, suffix) /\ domain # suffix
    ELSE IF EndsWith(pattern, ".*")
         THEN LET prefix == SubSeq(pattern, 1, Len(pattern) - 2)
              IN StartsWith(domain, prefix \o ".")
         ELSE FALSE

RECURSIVE WildcardLoop(_, _)
WildcardLoop(domain, k) ==
    IF k > Len(WILDCARD_AI_PROVIDER_DOMAINS)
    THEN None
    ELSE IF WildcardMatches(WILDCARD_AI_PROVIDER_DOMAINS[k].pattern, domain)
         THEN Some(WILDCARD_AI_PROVIDER_DOMAINS[k].provider)
         ELSE WildcardLoop(domain, k + 1)

\* resolve_provider: the exact table first, then the wildcard patterns; None or
\* the provider id.
resolve_provider(domain) ==
    IF domain \in DOMAIN EXACT_AI_PROVIDER_DOMAINS
    THEN Some(EXACT_AI_PROVIDER_DOMAINS[domain])
    ELSE WildcardLoop(domain, 1)

(***************************************************************************)
(* ShadowAIDetectionService: classification and scoring                    *)
(***************************************************************************)
HIGH_SENSITIVITY_PATH_FRAGMENTS ==
    {"/v1/chat/completions", "/v1/completions", "/v1/embeddings", "/messages",
     "/generate", "/invoke", "/fine-tunes", "/fine_tuning", "/assistants",
     "/threads", "/runs"}

FineTuningFragments == {"/fine-tunes", "/fine_tuning", "/training"}

MEDIUM_SENSITIVITY_BYTES == 4096
HIGH_SENSITIVITY_BYTES == 32768
CRITICAL_SENSITIVITY_BYTES == 131072

\* Variant: the size thresholds are tried before the fine-tuning fragments.
classify_data_sensitivity_SizeFirst(domain, url_path, request_size_bytes) ==
    LET path_lower == Lower(url_path)
    IN IF request_size_bytes >= CRITICAL_SENSITIVITY_BYTES THEN "critical"
       ELSE IF request_size_bytes >= HIGH_SENSITIVITY_BYTES THEN "high"
       ELSE IF \E frag \in FineTuningFragments : Contains(path_lower, frag) THEN "critical"
       ELSE IF \E frag \in HIGH_SENSITIVITY_PATH_FRAGMENTS : Contains(path_lower, frag)
            THEN IF request_size_bytes >= MEDIUM_SENSITIVITY_BYTES THEN "high" ELSE "medium"
       ELSE IF request_size_bytes >= MEDIUM_SENSITIVITY_BYTES THEN "medium"
       ELSE "low"

\* Variant: a high-sensitivity path is high below the medium threshold and
\* medium from it on.
classify_data_sensitivity_SmallHigh(domain, url_path, request_size_bytes) ==
    LET path_lower == Lower(url_path)
    IN IF \E frag \in FineTuningFragments : Contains(path_lower, frag) THEN "critical"
       ELSE IF request_size_bytes >= CRITICAL_SENSITIVITY_BYTES THEN "critical"
       ELSE IF request_size_bytes >= HIGH_SENSITIVITY_BYTES THEN "high"
       ELSE IF \E frag \in HIGH_SENSITIVITY_PATH_FRAGMENTS : Contains(path_lower, frag)
            THEN IF request_size_bytes >= MEDIUM_SENSITIVITY_BYTES THEN "medium" ELSE "high"
       ELSE IF request_size_bytes >= MEDIUM_SENSITIVITY_BYTES THEN "medium"
       ELSE "low"

\* The domain argument is accepted and not used by the code.
classify_data_sensitivity(domain, url_path, request_size_bytes) ==
    LET path_lower == Lower(url_path)
    IN IF \E frag \in FineTuningFragments : Contains(path_lower, frag) THEN "critical"
       ELSE IF request_size_bytes >= CRITICAL_SENSITIVITY_BYTES THEN "critical"
       ELSE IF request_size_bytes >= HIGH_SENSITIVITY_BYTES THEN "high"
       ELSE IF \E frag \in HIGH_SENSITIVITY_PATH_FRAGMENTS : Contains(path_lower, frag)
            THEN IF request_size_bytes >= MEDIUM_SENSITIVITY_BYTES THEN "high" ELSE "medium"
       ELSE IF request_size_bytes >= MEDIUM_SENSITIVITY_BYTES THEN "medium"
       ELSE "low"

\* Weights are kept in hundredths (0.75 is 75), scores in hundredths of a point
\* (26.00 is 2600); every product below is then an exact integer.
PROVIDER_RISK_WEIGHTS ==
    ("openai" :> 60) @@ ("anthropic" :> 50) @@ ("google" :> 50) @@
    ("azure-openai" :> 30) @@ ("aws-bedrock" :> 30) @@ ("cohere" :> 60) @@
    ("mistral" :> 70) @@ ("huggingface" :> 70) @@ ("replicate" :> 80) @@
    ("together" :> 80) @@ ("perplexity" :> 80) @@ ("groq" :> 70) @@
    ("deepseek" :> 90) @@ ("xai" :> 70) @@ ("stability" :> 60) @@
    ("elevenlabs" :> 60) @@ ("midjourney" :> 70) @@ ("runway" :> 70) @@
    ("character-ai" :> 90) @@ ("openrouter" :> 80) @@ ("fireworks" :> 70) @@
    ("anyscale" :> 60) @@ ("lepton" :> 80) @@ ("aleph-alpha" :> 40) @@
    ("ai21" :> 70) @@ ("inflection" :> 80) @@ ("novita" :> 90) @@
    ("cerebras" :> 60) @@ ("scale" :> 50) @@ ("writer" :> 60) @@
    ("jasper" :> 70) @@ ("copy-ai" :> 70)

DEFAULT_PROVIDER_RISK == 80

SENSITIVITY_WEIGHTS ==
    ("low" :> 10) @@ ("medium" :> 40) @@ ("high" :> 75) @@ ("critical" :> 100)

Min(a, b) == IF a <= b THEN a ELSE b

\* Variant: high and critical tiers do not raise the compliance risk.
compute_risk_score_NoElevation(sensitivity, provider, has_auth) ==
    LET sensitivity_weight ==
            IF sensitivity \in DOMAIN SENSITIVITY_WEIGHTS
            THEN SENSITIVITY_WEIGHTS[sensitivity] ELSE 10
        base == IF has_auth THEN 60 ELSE 30
        compliance_risk ==
            base
        provider_risk ==
            IF provider \in DOMAIN PROVIDER_RISK_WEIGHTS
            THEN PROVIDER_RISK_WEIGHTS[provider] ELSE DEFAULT_PROVIDER_RISK
    IN Min(sensitivity_weight * 40 + compliance_risk * 40 + provider_risk * 20, 10000)

\* Variant: the three terms are weighted as percentages (40, 40, 20) of 100 and
\* the sum is not capped.
compute_risk_score_Percent(sensitivity, provider, has_auth) ==
    LET sensitivity_weight ==
            IF sensitivity \in DOMAIN SENSITIVITY_WEIGHTS
            THEN SENSITIVITY_WEIGHTS[sensitivity] ELSE 10
        base == IF has_auth THEN 60 ELSE 30
        compliance_risk ==
            IF sensitivity \in {"high", "critical"} THEN Min(base + 20, 100) ELSE base
        provider_risk ==
            IF provider \in DOMAIN PROVIDER_RISK_WEIGHTS
            THEN PROVIDER_RISK_WEIGHTS[provider] ELSE DEFAULT_PROVIDER_RISK
    IN (sensitivity_weight * 40 + compliance_risk * 40 + provider_risk * 20) * 100

\* Variant: the compliance risk is 0.3 with an auth header and 0.6 without.
compute_risk_score_AuthLowers(sensitivity, provider, has_auth) ==
    LET sensitivity_weight ==
            IF sensitivity \in DOMAIN SENSITIVITY_WEIGHTS
            THEN SENSITIVITY_WEIGHTS[sensitivity] ELSE 10
        base == IF has_auth THEN 30 ELSE 60
        compliance_risk ==
            IF sensitivity \in {"high", "critical"} THEN Min(base + 20, 100) ELSE base
        provider_risk ==
            IF provider \in DOMAIN PROVIDER_RISK_WEIGHTS
            THEN PROVIDER_RISK_WEIGHTS[provider] ELSE DEFAULT_PROVIDER_RISK
    IN Min(sensitivity_weight * 40 + compliance_risk * 40 + provider_risk * 20, 10000)

\* compute_risk_score, in hundredths of a point: round(min(raw * 100, 100), 2).
compute_risk_score(sensitivity, provider, has_auth) ==
    LET sensitivity_weight ==
            IF sensitivity \in DOMAIN SENSITIVITY_WEIGHTS
            THEN SENSITIVITY_WEIGHTS[sensitivity] ELSE 10
        base == IF has_auth THEN 60 ELSE 30
        compliance_risk ==
            IF sensitivity \in {"high", "critical"} THEN Min(base + 20, 100) ELSE base
        provider_risk ==
            IF provider \in DOMAIN PROVIDER_RISK_WEIGHTS
            THEN PROVIDER_RISK_WEIGHTS[provider] ELSE DEFAULT_PROVIDER_RISK
    IN Min(sensitivity_weight * 40 + compliance_risk * 40 + provider_risk * 20, 10000)

PATH_TO_BUSINESS_VALUE ==
    ("/v1/chat/completions" :> "text-generation") @@
    ("/v1/completions" :> "text-generation") @@
    ("/v1/embeddings" :> "data-analysis") @@
    ("/messages" :> "text-generation") @@
    ("/generate" :> "text-generation") @@
    ("/invoke" :> "text-generation") @@
    ("/fine-tunes" :> "code-assist") @@
    ("/fine_tuning" :> "code-assist") @@
    ("/images/generations" :> "image-generation") @@
    ("/image" :> "image-generation") @@
    ("/assistants" :> "productivity") @@
    ("/threads" :> "productivity") @@
    ("/runs" :> "productivity") @@
    ("/audio" :> "productivity") @@
    ("/transcriptions" :> "productivity")

\* _PATH_TO_BUSINESS_VALUE.get(representative_path.lower(), "unknown")
BusinessValue(representative_path) ==
    IF Lower(representative_path) \in DOMAIN PATH_TO_BUSINESS_VALUE
    THEN PATH_TO_BUSINESS_VALUE[Lower(representative_path)]
    ELSE "unknown"

\* round((total_bytes / 4096) * 0.01, 4), in ten-thousandths of a dollar, to the
\* nearest (a tie to the even neighbour).
EstimatedDailyCost(total_bytes) ==
    LET q == (total_bytes * 100) \div 4096
        r == (total_bytes * 100) % 4096
    IN IF 2 * r > 4096 \/ (2 * r = 4096 /\ q % 2 = 1) THEN q + 1 ELSE q

(***************************************************************************)
(* ShadowAIDetectionService: the two pipelines                             *)
(***************************************************************************)

\* The ShadowAIDetection built at the end of each loop body (id and timestamps
\* are fresh values and are left out).
NewDetection(tenant_id, source_ip, domain, provider, sensitivity, cost, risk, business_value) ==
    [tenant_id |-> tenant_id,
     source_ip |-> source_ip,
     destination_domain |-> domain,
     provider |-> provider,
     estimated_data_sensitivity |-> sensitivity,
     estimated_daily_cost_usd |-> cost,
     compliance_risk_score |-> risk,
     business_value_indicator |-> business_value,
     status |-> "detected"]

\* Variant: the duplicate check never finds the domain.
IsDuplicateNever(domain, seen_domains) == FALSE

\* analyze_dns_queries: `if domain in seen_domains: continue`
IsDuplicate(domain, seen_domains) == domain \in seen_domains

\* analyze_dns_queries: the loop over the queries from index k on.
RECURSIVE DnsLoop(_, _, _, _, _)
DnsLoop(tenant_id, queries, k, seen_domains, acc) ==
    IF k > Len(queries)
    THEN acc
    ELSE LET query == queries[k]
             domain == Strip(Lower(query.queried_domain))
             provider == resolve_provider(domain)
         IN IF provider = None
            THEN DnsLoop(tenant_id, queries, k + 1, seen_domains, acc)
            ELSE IF IsDuplicate(domain, seen_domains)
            THEN DnsLoop(tenant_id, queries, k + 1, seen_domains, acc)
            ELSE LET sensitivity == classify_data_sensitivity(domain, "", 0)
                     risk_score == compute_risk_score(sensitivity, Val(provider),
                                                      query.has_auth_header)
                     detection == NewDetection(tenant_id, query.source_ip, domain,
                                               Val(provider), sensitivity, 0, risk_score,
                                               "unknown")
                 IN DnsLoop(tenant_id, queries, k + 1, seen_domains \cup {domain},
                            Append(acc, detection))

analyze_dns_queries(tenant_id, queries) == DnsLoop(tenant_id, queries, 1, {}, <<>>)

\* `entry.url_path or ""`
PathOrEmpty(url_path) == IF url_path = None THEN "" ELSE Val(url_path)

\* Variant: the aggregate keeps the first entry's byte count.
MergeEntryFirstBytes(agg, entry) ==
    [agg EXCEPT !.has_auth = @ \/ entry.has_auth_header,
                !.entry_count = @ + 1,
                !.url_paths = IF PathOrEmpty(entry.url_path) # ""
                              THEN @ \cup {Val(entry.url_path)} ELSE @]

\* detect_from_network_log: the else branch of the aggregation loop.
MergeEntry(agg, entry) ==
    [agg EXCEPT !.total_bytes = @ + entry.request_size_bytes,
                !.has_auth = @ \/ entry.has_auth_header,
                !.entry_count = @ + 1,
                !.url_paths = IF PathOrEmpty(entry.url_path) # ""
                              THEN @ \cup {Val(entry.url_path)} ELSE @]

\* detect_from_network_log: the aggregation loop from index k on.  The dict of
\* aggregates keeps insertion order: a sequence of aggregates, one per domain.
RECURSIVE AggregateLoop(_, _, _)
AggregateLoop(log_entries, k, domain_aggregates) ==
    IF k > Len(log_entries)
    THEN domain_aggregates
    ELSE LET entry == log_entries[k]
             domain == Strip(Lower(entry.destination_domain))
             provider == resolve_provider(domain)
             at == {j \in 1..Len(domain_aggregates) : domain_aggregates[j].domain = domain}
         IN IF provider = None
            THEN AggregateLoop(log_entries, k + 1, domain_aggregates)
            ELSE IF at = {}
            THEN AggregateLoop(log_entries, k + 1,
                    Append(domain_aggregates,
                           [domain |-> domain,
                            provider |-> Val(provider),
                            source_ip |-> entry.source_ip,
                            url_path |-> PathOrEmpty(entry.url_path),
                            total_bytes |-> entry.request_size_bytes,
                            has_auth |-> entry.has_auth_header,
                            entry_count |-> 1,
                            url_paths |-> {PathOrEmpty(entry.url_path)}]))
            ELSE LET j == CHOOSE j \in at : TRUE
                 IN AggregateLoop(log_entries, k + 1,
                       [domain_aggregates EXCEPT ![j] = MergeEntry(@, entry)])

\* max(agg["url_paths"], key=len): url_paths is a set, so among the longest
\* paths the one returned depends on the set's iteration order.
RepresentativePaths(agg) ==
    {p \in agg.url_paths : \A q \in agg.url_paths : Len(q) <= Len(p)}

\* The detection of one aggregate, for the representative path chosen.
DetectionOf(tenant_id, agg, representative_path) ==
    LET sensitivity == classify_data_sensitivity(agg.domain, representative_path,
                                                 agg.total_bytes)
    IN NewDetection(tenant_id, agg.source_ip, agg.domain, agg.provider, sensitivity,
                    EstimatedDailyCost(agg.total_bytes),
                    compute_risk_score(sensitivity, agg.provider, agg.has_auth),
                    BusinessValue(representative_path))

\* detect_from_network_log: the second loop; the lists it can return.
RECURSIVE DetectionLists(_, _, _)
DetectionLists(tenant_id, domain_aggregates, k) ==
    IF k > Len(domain_aggregates)
    THEN {<<>>}
    ELSE {<<DetectionOf(tenant_id, domain_aggregates[k], p)>> \o rest :
             p \in RepresentativePaths(domain_aggregates[k]),
             rest \in DetectionLists(tenant_id, domain_aggregates, k + 1)}

detect_from_network_log(tenant_id, log_entries) ==
    DetectionLists(tenant_id, AggregateLoop(log_entries, 1, <<>>), 1)

(***************************************************************************)
(* State machine of the detection pipeline: a batch goes in, a list of     *)
(* detections comes out.                                                   *)
(***************************************************************************)
MaxBatch == 3

\* The (domain, source IP) pairs the batches are drawn from: one provider domain
\* in two spellings and from two hosts, a second provider, a wildcard match, and
\* a domain that is not in the registry.
Sightings ==
    {<<"api.openai.com", "10.0.0.1">>, <<" API.OpenAI.com", "10.0.0.2">>,
     <<"api.anthropic.com", "10.0.0.1">>,
     <<"foo.openai.azure.com", "10.0.0.2">>, <<"github.com", "10.0.0.2">>}

DNSQueries ==
    {[queried_domain |-> s[1], source_ip |-> s[2], has_auth_header |-> (s[2] = "10.0.0.2")] :
        s \in Sightings}

NetworkLogEntries ==
    {[source_ip |-> s[2],
      destination_domain |-> s[1],
      url_path |-> IF s[2] = "10.0.0.2" THEN Some("/v1/messages") ELSE None,
      request_size_bytes |-> IF s[2] = "10.0.0.2" THEN 2048 ELSE 0,
      has_auth_header |-> (s[2] = "10.0.0.2")] :
        s \in Sightings}

Batches(S) == UNION {[1..n -> S] : n \in 0..MaxBatch}

AmnestyIdle ==
    /\ now = 0
    /\ programs = <<>>
    /\ update_status_signature = "tenant_id_required"
    /\ calls = [i \in 1..MaxInflight |-> Idle]
    /\ last = NoCall
    /\ ncalls = 0

DetectInit ==
    /\ AmnestyIdle
    /\ CallIdle
    /\ DiscoveryIdle
    /\ detections = None
    /\ \/ /\ request \in [method : {"analyze_dns_queries"}, tenant_id : Tenants]
          /\ batch \in Batches(DNSQueries)
       \/ /\ request \in [method : {"detect_from_network_log"}, tenant_id : Tenants]
          /\ batch \in Batches(NetworkLogEntries)

AnalyzeDnsQueries ==
    /\ request.method = "analyze_dns_queries"
    /\ detections = None
    /\ detections' = Some(analyze_dns_queries(request.tenant_id, batch))
    /\ UNCHANGED <<batch, request>>

DetectFromNetworkLog ==
    /\ request.method = "detect_from_network_log"
    /\ detections = None
    /\ \E out \in detect_from_network_log(request.tenant_id, batch) :
          detections' = Some(out)
    /\ UNCHANGED <<batch, request>>

DetectNext ==
    \/ AnalyzeDnsQueries /\ UNCHANGED amnestyVars /\ UNCHANGED callVars /\ UNCHANGED discoveryVars
    \/ DetectFromNetworkLog /\ UNCHANGED amnestyVars /\ UNCHANGED callVars /\ UNCHANGED discoveryVars

SpecDetect == DetectInit /\ [][DetectNext]_vars

(***************************************************************************)
(* Detection pipeline: the claims                                          *)
(***************************************************************************)

\* The domain of entry k of the batch, as either pipeline normalises it.
BatchDomain(k) ==
    IF request.method = "analyze_dns_queries"
    THEN Strip(Lower(batch[k].queried_domain))
    ELSE Strip(Lower(batch[k].destination_domain))

ResolvingDomains ==
    {BatchDomain(k) : k \in {j \in 1..Len(batch) : resolve_provider(BatchDomain(j)) # None}}

FirstEntryOf(d) ==
    CHOOSE k \in 1..Len(batch) :
        BatchDomain(k) = d /\ \A j \in 1..(k - 1) : BatchDomain(j) # d

\* C10: the returned list holds exactly one detection per distinct normalised
\* domain of the batch that resolves to a provider and none for any other
\* domain; each detection carries the provider of its domain, the service's
\* tenant, the source IP of the domain's first entry, and status detected.
C10_OneDetectionPerResolvedDomain ==
    detections # None
    => LET out == Val(detections)
       IN /\ Len(out) = Cardinality(ResolvingDomains)
          /\ \A d \in ResolvingDomains :
                Cardinality({k \in 1..Len(out) : out[k].destination_domain = d}) = 1
          /\ \A k \in 1..Len(out) :
                /\ out[k].destination_domain \in ResolvingDomains
                /\ out[k].provider = Val(resolve_provider(out[k].destination_domain))
                /\ out[k].tenant_id = request.tenant_id
                /\ out[k].source_ip = batch[FirstEntryOf(out[k].destination_domain)].source_ip
                /\ out[k].status = "detected"

\* C10 witness: a batch of three entries naming one provider domain twice, in
\* different spellings and from different source IPs, and a domain that does not
\* resolve, gave one detection, with the first entry's source IP.
C10_Witness ==
    /\ detections # None
    /\ Len(batch) = 3
    /\ BatchDomain(1) = "api.openai.com"
    /\ BatchDomain(2) = "github.com"
    /\ BatchDomain(3) = "api.openai.com"
    /\ batch[1].source_ip # batch[3].source_ip
    /\ Len(Val(detections)) = 1
    /\ Val(detections)[1].source_ip = batch[1].source_ip
    /\ Val(detections)[1].provider = "openai"

(***************************************************************************)
(* Aggregation of network-log entries: batches whose entries differ in     *)
(* path, size and auth flag, so that the aggregate decides the outcome.    *)
(***************************************************************************)
LogEntry(domain, source_ip, url_path, request_size_bytes, has_auth_header) ==
    [source_ip |-> source_ip,
     destination_domain |-> domain,
     url_path |-> url_path,
     request_size_bytes |-> request_size_bytes,
     has_auth_header |-> has_auth_header]

\* Two of the paths have the same length; the sizes stay under the tier
\* thresholds one by one and cross them when summed.
AggregateEntries ==
    {LogEntry("api.openai.com", "10.0.0.1", None, 3000, FALSE),
     LogEntry("api.openai.com", "10.0.0.2", Some("/v1/messages"), 3000, TRUE),
     LogEntry(" API.OpenAI.com", "10.0.0.1", Some("/generate"), 2000, FALSE),
     LogEntry("api.openai.com", "10.0.0.1", Some("/v1/models/a"), 30000, FALSE),
     LogEntry("api.anthropic.com", "10.0.0.2", Some("/V1/Chat/Completions"), 100, TRUE),
     LogEntry("github.com", "10.0.0.2", Some("/v1/fine-tunes"), 200000, TRUE)}

AggregateInit ==
    /\ AmnestyIdle
    /\ CallIdle
    /\ DiscoveryIdle
    /\ detections = None
    /\ request \in [method : {"detect_from_network_log"}, tenant_id : Tenants]
    /\ batch \in Batches(AggregateEntries)

AggregateNext == DetectFromNetworkLog /\ UNCHANGED amnestyVars /\ UNCHANGED callVars /\ UNCHANGED discoveryVars

SpecAggregate == AggregateInit /\ [][AggregateNext]_vars

\* The entries of the batch that belong to the group of domain d.
GroupOf(d) == {j \in 1..Len(batch) : BatchDomain(j) = d}

RECURSIVE SumBytes(_)
SumBytes(G) ==
    IF G = {} THEN 0
    ELSE LET j == CHOOSE j \in G : TRUE
         IN batch[j].request_size_bytes + SumBytes(G \ {j})

GroupPaths(d) == {PathOrEmpty(batch[j].url_path) : j \in GroupOf(d)}

LongestPaths(d) == {p \in GroupPaths(d) : \A q \in GroupPaths(d) : Len(q) <= Len(p)}

GroupAuth(d) == \E j \in GroupOf(d) : batch[j].has_auth_header

\* C11: every detection of detect_from_network_log has the tier that
\* classify_data_sensitivity gives for a longest url_path of its group and the
\* sum of the group's request sizes, and the score that compute_risk_score gives
\* for that tier, the group's provider and the OR of the group's auth flags.
C11_GroupAggregatesDecide ==
    detections # None
    => \A k \in 1..Len(Val(detections)) :
          LET det == Val(detections)[k]
              d == det.destination_domain
          IN /\ \E p \in LongestPaths(d) :
                   det.estimated_data_sensitivity
                      = classify_data_sensitivity(d, p, SumBytes(GroupOf(d)))
             /\ det.compliance_risk_score
                   = compute_risk_score(det.estimated_data_sensitivity, det.provider,
                                        GroupAuth(d))

\* C11 witness: three entries of one domain, none of them high on its own and
\* the first without auth, gave one detection of tier high scored with auth.
C11_Witness ==
    /\ detections # None
    /\ Len(batch) = 3
    /\ \A j \in 1..3 : BatchDomain(j) = "api.openai.com"
    /\ \A j \in 1..3 :
          classify_data_sensitivity("api.openai.com", PathOrEmpty(batch[j].url_path),
                                    batch[j].request_size_bytes) # "high"
    /\ ~batch[1].has_auth_header
    /\ SumBytes(GroupOf("api.openai.com")) = 8000
    /\ LongestPaths("api.openai.com") = {"/v1/messages"}
    /\ Len(Val(detections)) = 1
    /\ Val(detections)[1].estimated_data_sensitivity = "high"
    /\ Val(detections)[1].compliance_risk_score = 7400

(***************************************************************************)
(* MigrationProposalService (core/services/migration_service.py)           *)
(***************************************************************************)

\* hours are kept in tenths of an hour (2.0 is 20), preservation_pct in
\* hundredths of a percent (95.00 is 9500).
SHADOW_TO_AUMOS_MAPPING ==
    ("code-assist" :>
        [module |-> "aumos-llm-serving",
         complexity |-> "trivial",
         hours |-> 20,
         preservation_pct |-> 9500,
         description |-> "Route code assistance through governed LLM serving with full audit trail, model governance policies, and data residency controls."]) @@
    ("text-generation" :>
        [module |-> "aumos-text-engine",
         complexity |-> "moderate",
         hours |-> 80,
         preservation_pct |-> 9000,
         description |-> "Replace direct API calls with AumOS text engine supporting PII detection, differential privacy output filtering, and structured output validation."]) @@
    ("data-analysis" :>
        [module |-> "aumos-context-graph",
         complexity |-> "moderate",
         hours |-> 160,
         preservation_pct |-> 8500,
         description |-> "Migrate analytics workflows to graph-accelerated RAG with data governance, fine-grained access control, and provenance tracking."]) @@
    ("image-generation" :>
        [module |-> "aumos-image-engine",
         complexity |-> "moderate",
         hours |-> 40,
         preservation_pct |-> 9000,
         description |-> "Route image generation through governed pipeline with C2PA provenance watermarking, content policy enforcement, and brand safety filters."]) @@
    ("productivity" :>
        [module |-> "aumos-llm-serving",
         complexity |-> "trivial",
         hours |-> 40,
         preservation_pct |-> 9200,
         description |-> "Replace general productivity AI usage with governed LLM serving endpoint featuring session management, rate limiting, and usage analytics."]) @@
    ("audio" :>
        [module |-> "aumos-audio-engine",
         complexity |-> "moderate",
         hours |-> 80,
         preservation_pct |-> 8800,
         description |-> "Migrate audio AI usage (transcription, TTS) to AumOS audio engine with speaker anonymisation support and DLP scanning on transcripts."]) @@
    ("video" :>
        [module |-> "aumos-video-engine",
         complexity |-> "complex",
         hours |-> 240,
         preservation_pct |-> 8000,
         description |-> "Migrate video AI processing to AumOS video engine with content provenance, deepfake detection, and governed frame-level analysis."]) @@
    ("embedding" :>
        [module |-> "aumos-context-graph",
         complexity |-> "moderate",
         hours |-> 120,
         preservation_pct |-> 8800,
         description |-> "Replace external embedding API calls with AumOS context graph embedding service supporting private vector stores and tenant isolation."]) @@
    ("fine-tuning" :>
        [module |-> "aumos-llm-serving",
         complexity |-> "complex",
         hours |-> 400,
         preservation_pct |-> 7500,
         description |-> "Migrate fine-tuning workflows to governed MLOps lifecycle with model registry integration, training data governance, and bias evaluation."]) @@
    ("document-processing" :>
        [module |-> "aumos-text-engine",
         complexity |-> "moderate",
         hours |-> 100,
         preservation_pct |-> 9000,
         description |-> "Replace AI document processing with AumOS text engine OCR and extraction capabilities featuring DLP and classification enforcement."]) @@
    ("search" :>
        [module |-> "aumos-context-graph",
         complexity |-> "moderate",
         hours |-> 80,
         preservation_pct |-> 8700,
         description |-> "Migrate semantic search to AumOS context graph with tenant-scoped vector store, access control policies, and audit logging."]) @@
    ("summarisation" :>
        [module |-> "aumos-text-engine",
         complexity |-> "trivial",
         hours |-> 40,
         preservation_pct |-> 9200,
         description |-> "Replace summarisation API calls with AumOS text engine endpoints that apply length and sensitivity-level constraints per tenant policy."]) @@
    ("translation" :>
        [module |-> "aumos-text-engine",
         complexity |-> "trivial",
         hours |-> 30,
         preservation_pct |-> 9500,
         description |-> "Route translation requests through AumOS text engine translation service with content classification and jurisdictional compliance."]) @@
    ("classification" :>
        [module |-> "aumos-context-graph",
         complexity |-> "moderate",
         hours |-> 140,
         preservation_pct |-> 8600,
         description |-> "Migrate AI classification tasks to AumOS context graph with governed label taxonomies, confidence thresholds, and explainability reports."]) @@
    ("unknown" :>
        [module |-> "aumos-llm-serving",
         complexity |-> "moderate",
         hours |-> 80,
         preservation_pct |-> 8500,
         description |-> "Route unclassified AI API usage through governed LLM serving endpoint. Usage pattern will be further analysed during migration planning."])

\* Variant: an indicator that is not a key of the mapping has no entry (KeyError).
MappingOrKeyError(indicator) ==
    IF indicator \in DOMAIN SHADOW_TO_AUMOS_MAPPING
    THEN Some(SHADOW_TO_AUMOS_MAPPING[indicator])
    ELSE None

\* SHADOW_TO_AUMOS_MAPPING.get(indicator, SHADOW_TO_AUMOS_MAPPING["unknown"])
MappingOrUnknown(indicator) ==
    IF indicator \in DOMAIN SHADOW_TO_AUMOS_MAPPING
    THEN Some(SHADOW_TO_AUMOS_MAPPING[indicator])
    ELSE Some(SHADOW_TO_AUMOS_MAPPING["unknown"])

\* generate_proposal: the proposal returned (its own id and timestamps are fresh
\* values and are left out), or the error raised, and the detection object as
\* the call leaves it.
generate_proposal(detection) ==
    LET indicator == IF detection.business_value_indicator = ""
                     THEN "unknown" ELSE detection.business_value_indicator
        mapping == MappingOrUnknown(indicator)
    IN IF mapping = None
       THEN [proposal |-> None, raised |-> Some("KeyError"), detection |-> detection]
       ELSE [proposal |->
                Some([tenant_id |-> detection.tenant_id,
                      detection_id |-> detection.id,
                      proposed_aumos_module |-> Val(mapping).module,
                      migration_complexity |-> Val(mapping).complexity,
                      estimated_migration_hours |-> Val(mapping).hours,
                      productivity_preservation_pct |-> Val(mapping).preservation_pct,
                      compliance_gain_description |-> Val(mapping).description]),
             raised |-> None,
             detection |-> detection]

(***************************************************************************)
(* Calls of the functions that keep no state: the arguments are drawn in   *)
(* the initial state and the call returns in one step.                     *)
(***************************************************************************)

\* Sizes on both sides of every threshold of classify_data_sensitivity.
ClassifySizes == {0, 1, 4095, 4096, 32767, 32768, 131071, 131072, 200000}

ClassifyPaths ==
    {"", "/health", "/v1/chat/completions", "/V1/Messages", "/v1/images/generations",
     "/v1/fine-tunes", "/v1/Fine_Tuning/jobs", "/api/training/jobs"}

ClassifyCalls ==
    [fn : {"classify_data_sensitivity"}, domain : {"api.openai.com"},
     url_path : ClassifyPaths, request_size_bytes : ClassifySizes]

ClassifyDataSensitivity ==
    /\ call.fn = "classify_data_sensitivity"
    /\ ret = None
    /\ ret' = Some(classify_data_sensitivity(call.domain, call.url_path,
                                             call.request_size_bytes))
    /\ UNCHANGED call
Tiers == {"low", "medium", "high", "critical"}

\* Every provider of the risk table, and one that is not in it.
RiskProviders == DOMAIN PROVIDER_RISK_WEIGHTS \cup {"acme-ai"}

RiskCalls ==
    [fn : {"compute_risk_score"}, sensitivity : Tiers, provider : RiskProviders,
     has_auth : BOOLEAN]

ComputeRiskScore ==
    /\ call.fn = "compute_risk_score"
    /\ ret = None
    /\ ret' = Some(compute_risk_score(call.sensitivity, call.provider, call.has_auth))
    /\ UNCHANGED call

\* Exact entries, subdomains of the wildcard base, the bare base, a name that
\* only ends with the base's characters, and names outside the registry.
ResolveDomains ==
    {"api.openai.com", "claude.ai", "bedrock-runtime.us-east-1.amazonaws.com",
     "foo.openai.azure.com", "my-company.openai.azure.com", "a.b.openai.azure.com",
     "openai.azure.com", "evilopenai.azure.com", "openai.com", "google.com", "",
     "api.unknownservice.example.com", "x.bedrock-runtime.us-east-1.amazonaws.com",
     "internal-tools.company.internal"}

ResolveCalls == [fn : {"resolve_provider"}, domain : ResolveDomains]

ResolveProvider ==
    /\ call.fn = "resolve_provider"
    /\ ret = None
    /\ ret' = Some(resolve_provider(call.domain))
    /\ UNCHANGED call
\* Every key of the mapping, the empty string, and strings that are no key.
Indicators == DOMAIN SHADOW_TO_AUMOS_MAPPING \cup {"", "novel-use", "Code-Assist"}

DetectionIds == {"d1", "d2"}

\* The fields of a ShadowAIDetection that generate_proposal reads.
ProposalDetections ==
    [id : DetectionIds, tenant_id : Tenants, business_value_indicator : Indicators]

\* given is the detection as it was handed over, detection the object itself.
ProposalCalls ==
    {[fn |-> "generate_proposal", given |-> d, detection |-> d] : d \in ProposalDetections}

GenerateProposal ==
    /\ call.fn = "generate_proposal"
    /\ ret = None
    /\ LET out == generate_proposal(call.detection)
       IN /\ ret' = Some([proposal |-> out.proposal, raised |-> out.raised])
          /\ call' = [call EXCEPT !.detection = out.detection]

CallInit ==
    /\ AmnestyIdle
    /\ DetectIdle
    /\ ret = None
    /\ DiscoveryIdle
    /\ call \in ClassifyCalls \cup RiskCalls \cup ResolveCalls \cup ProposalCalls

CallNext ==
    \/ ClassifyDataSensitivity /\ UNCHANGED amnestyVars /\ UNCHANGED detectVars /\ UNCHANGED discoveryVars
    \/ ComputeRiskScore /\ UNCHANGED amnestyVars /\ UNCHANGED detectVars /\ UNCHANGED discoveryVars
    \/ ResolveProvider /\ UNCHANGED amnestyVars /\ UNCHANGED detectVars /\ UNCHANGED discoveryVars
    \/ GenerateProposal /\ UNCHANGED amnestyVars /\ UNCHANGED detectVars /\ UNCHANGED discoveryVars

SpecCall == CallInit /\ [][CallNext]_vars

(***************************************************************************)
(* Classification: the claims                                              *)
(***************************************************************************)

\* The six rules of the decision list, for a path and a size.
Rule(r, url_path, size) ==
    CASE r = 1 -> \E frag \in FineTuningFragments : Contains(Lower(url_path), frag)
      [] r = 2 -> size >= 131072
      [] r = 3 -> size >= 32768
      [] r = 4 -> \E frag \in HIGH_SENSITIVITY_PATH_FRAGMENTS : Contains(Lower(url_path), frag)
      [] r = 5 -> size >= 4096
      [] r = 6 -> TRUE

RuleTier(r, size) ==
    CASE r = 1 -> "critical"
      [] r = 2 -> "critical"
      [] r = 3 -> "high"
      [] r = 4 -> IF size >= 4096 THEN "high" ELSE "medium"
      [] r = 5 -> "medium"
      [] r = 6 -> "low"

FirstRule(url_path, size) ==
    CHOOSE r \in 1..6 : Rule(r, url_path, size) /\ \A q \in 1..(r - 1) : ~Rule(q, url_path, size)

\* C12: classify_data_sensitivity returns the tier of the first rule of the
\* decision list that matches the path (compared in lower case) and the size.
C12_ClassifyIsDecisionList ==
    (call.fn = "classify_data_sensitivity" /\ ret # None)
    => Val(ret) = RuleTier(FirstRule(call.url_path, call.request_size_bytes),
                            call.request_size_bytes)

\* C12 witness: a fine-tuning path of size 0 was classified critical.
C12_Witness ==
    /\ call.fn = "classify_data_sensitivity"
    /\ call.url_path = "/v1/fine-tunes"
    /\ call.request_size_bytes = 0
    /\ ret = Some("critical")

TierRank(tier) ==
    CASE tier = "low" -> 1 [] tier = "medium" -> 2 [] tier = "high" -> 3 [] tier = "critical" -> 4

\* C13: for a path without a fine-tuning/training fragment, no larger size gets
\* a lower tier than the one returned for the size of the call.
C13_ClassifyMonotonicInSize ==
    (/\ call.fn = "classify_data_sensitivity"
     /\ ret # None
     /\ ~Rule(1, call.url_path, 0))
    => \A s2 \in ClassifySizes :
          s2 >= call.request_size_bytes
          => TierRank(classify_data_sensitivity(call.domain, call.url_path, s2))
                >= TierRank(Val(ret))

\* C13 witness: an inference path just under the medium threshold was classified
\* medium, and is high at the threshold.
C13_Witness ==
    /\ call.fn = "classify_data_sensitivity"
    /\ call.url_path = "/v1/chat/completions"
    /\ call.request_size_bytes = 4095
    /\ ret = Some("medium")
    /\ classify_data_sensitivity(call.domain, call.url_path, 4096) = "high"
(***************************************************************************)
(* Risk score: the claims                                                  *)
(***************************************************************************)

\* The three terms of the formula, in hundredths.
TermSensitivity(tier) ==
    CASE tier = "low" -> 10 [] tier = "medium" -> 40 [] tier = "high" -> 75
      [] tier = "critical" -> 100

TermCompliance(tier, has_auth) ==
    LET elevated == (IF has_auth THEN 60 ELSE 30)
                    + (IF tier \in {"high", "critical"} THEN 20 ELSE 0)
    IN IF elevated > 100 THEN 100 ELSE elevated

TermProvider(provider) ==
    IF provider \in DOMAIN PROVIDER_RISK_WEIGHTS THEN PROVIDER_RISK_WEIGHTS[provider] ELSE 80

\* C14: compute_risk_score returns min((sensitivity_weight * 0.4 + compliance_risk
\* * 0.4 + provider_risk * 0.2) * 100, 100) to two decimals, with the weights of
\* the tier table, the compliance risk 0.6/0.3 (+0.2 for high and critical, at
\* most 1.0) and the provider's table value, 0.8 for a provider not in the table.
C14_RiskScoreFormula ==
    (call.fn = "compute_risk_score" /\ ret # None)
    => LET raw == TermSensitivity(call.sensitivity) * 40
                  + TermCompliance(call.sensitivity, call.has_auth) * 40
                  + TermProvider(call.provider) * 20
       IN Val(ret) = IF raw > 10000 THEN 10000 ELSE raw

\* C14 witness: critical tier, auth header, a provider that is not in the table:
\* (1.0 * 0.4 + 0.8 * 0.4 + 0.8 * 0.2) * 100 = 88.00.
C14_Witness ==
    /\ call.fn = "compute_risk_score"
    /\ call.sensitivity = "critical"
    /\ call.has_auth
    /\ call.provider \notin DOMAIN PROVIDER_RISK_WEIGHTS
    /\ ret = Some(8800)

\* analyze_dns_queries alone, for one tenant.
DnsInit ==
    /\ AmnestyIdle
    /\ CallIdle
    /\ DiscoveryIdle
    /\ detections = None
    /\ request = [method |-> "analyze_dns_queries", tenant_id |-> "t1"]
    /\ batch \in Batches(DNSQueries)

RiskInit ==
    /\ AmnestyIdle
    /\ DetectIdle
    /\ ret = None
    /\ DiscoveryIdle
    /\ call \in RiskCalls

\* The score wherever it is computed: by a direct call and by both pipelines.
ScoreInit == RiskInit \/ DnsInit \/ AggregateInit

ScoreNext ==
    \/ ComputeRiskScore /\ UNCHANGED amnestyVars /\ UNCHANGED detectVars /\ UNCHANGED discoveryVars
    \/ AnalyzeDnsQueries /\ UNCHANGED amnestyVars /\ UNCHANGED callVars /\ UNCHANGED discoveryVars
    \/ DetectFromNetworkLog /\ UNCHANGED amnestyVars /\ UNCHANGED callVars /\ UNCHANGED discoveryVars

SpecScore == ScoreInit /\ [][ScoreNext]_vars

\* C15: every score compute_risk_score returns, and the compliance_risk_score of
\* every detection of both pipelines, lies in [0.00, 100.00].
C15_RiskScoreInRange ==
    /\ (call.fn = "compute_risk_score" /\ ret # None)
          => (Val(ret) >= 0 /\ Val(ret) <= 10000)
    /\ detections # None
          => \A k \in 1..Len(Val(detections)) :
                /\ Val(detections)[k].compliance_risk_score >= 0
                /\ Val(detections)[k].compliance_risk_score <= 10000

\* C15 witness: the highest score of the table, 90.00 (critical tier, auth
\* header, a provider of weight 0.9).
C15_Witness ==
    /\ call.fn = "compute_risk_score"
    /\ ret = Some(9000)
    /\ \A c \in RiskCalls :
          compute_risk_score(c.sensitivity, c.provider, c.has_auth) <= 9000

\* C16: for every tier and provider the score with an auth header is strictly
\* higher than the score without one.
C16_AuthRaisesScore ==
    (call.fn = "compute_risk_score" /\ ret # None /\ call.has_auth)
    => Val(ret) > compute_risk_score(call.sensitivity, call.provider, FALSE)

\* C16 witness: a score with auth header that lies 12.00 above the one without.
C16_Witness ==
    /\ call.fn = "compute_risk_score"
    /\ call.has_auth
    /\ ret # None
    /\ Val(ret) = compute_risk_score(call.sensitivity, call.provider, FALSE) + 1200
(***************************************************************************)
(* Business value: the claim                                               *)
(***************************************************************************)

\* The fragments of the table that a path contains.
FragmentsIn(url_path) ==
    {frag \in DOMAIN PATH_TO_BUSINESS_VALUE : Contains(Lower(url_path), frag)}

\* C17: the business_value_indicator of every detection of
\* detect_from_network_log is the indicator of a table fragment that the group's
\* representative (longest) path contains, and unknown only when the path
\* contains no fragment of the table.
C17_BusinessValueFromFragment ==
    (request.method = "detect_from_network_log" /\ detections # None)
    => \A k \in 1..Len(Val(detections)) :
          LET det == Val(detections)[k]
          IN \E p \in LongestPaths(det.destination_domain) :
                IF FragmentsIn(p) = {}
                THEN det.business_value_indicator = "unknown"
                ELSE \E frag \in FragmentsIn(p) :
                        det.business_value_indicator = PATH_TO_BUSINESS_VALUE[frag]
(***************************************************************************)
(* Provider registry: the claims                                           *)
(***************************************************************************)

\* domain is at least one character, a dot, and then base.
SubdomainOf(domain, base) ==
    Len(domain) > Len(base) + 1 /\ EndsWith(domain, "." \o base)

\* C18: resolve_provider returns the provider of an exact entry, azure-openai for
\* a subdomain of openai.azure.com, and nothing for the bare openai.azure.com.
C18_ExactThenWildcard ==
    (call.fn = "resolve_provider" /\ ret # None)
    => /\ call.domain \in DOMAIN EXACT_AI_PROVIDER_DOMAINS
             => Val(ret) = Some(EXACT_AI_PROVIDER_DOMAINS[call.domain])
       /\ SubdomainOf(call.domain, "openai.azure.com") => Val(ret) = Some("azure-openai")
       /\ call.domain = "openai.azure.com" => Val(ret) = None

\* C18 witness: a tenant subdomain of the wildcard base resolved to azure-openai.
C18_Witness ==
    /\ call.fn = "resolve_provider"
    /\ call.domain = "my-company.openai.azure.com"
    /\ ret = Some(Some("azure-openai"))

\* The bases of the "*." patterns.
WildcardBases ==
    {SubSeq(WILDCARD_AI_PROVIDER_DOMAINS[k].pattern, 3,
            Len(WILDCARD_AI_PROVIDER_DOMAINS[k].pattern)) :
        k \in {j \in 1..Len(WILDCARD_AI_PROVIDER_DOMAINS) :
                  StartsWith(WILDCARD_AI_PROVIDER_DOMAINS[j].pattern, "*.")}}

\* C19: resolve_provider returns nothing for a domain that is neither an exact
\* entry nor a subdomain (segment, dot, base) of a wildcard pattern's base.
C19_OthersDoNotResolve ==
    (/\ call.fn = "resolve_provider"
     /\ ret # None
     /\ call.domain \notin DOMAIN EXACT_AI_PROVIDER_DOMAINS
     /\ \A base \in WildcardBases : ~SubdomainOf(call.domain, base))
    => Val(ret) = None
(***************************************************************************)
(* Migration proposals: the claims                                         *)
(***************************************************************************)

\* C20: generate_proposal raises nothing; the proposal has the module,
\* complexity, hours, preservation percentage and description of the mapping
\* entry of the detection's indicator, or of the entry "unknown" when the
\* indicator is no key (a novel or an empty string); it carries the detection's
\* id and tenant id, and the detection is as it was handed over.
C20_ProposalFallsBackToUnknown ==
    (call.fn = "generate_proposal" /\ ret # None)
    => LET indicator == call.given.business_value_indicator
           entry == IF indicator \in DOMAIN SHADOW_TO_AUMOS_MAPPING
                    THEN SHADOW_TO_AUMOS_MAPPING[indicator]
                    ELSE SHADOW_TO_AUMOS_MAPPING["unknown"]
       IN /\ Val(ret).raised = None
          /\ Val(ret).proposal # None
          /\ LET proposal == Val(Val(ret).proposal)
             IN /\ proposal.proposed_aumos_module = entry.module
                /\ proposal.migration_complexity = entry.complexity
                /\ proposal.estimated_migration_hours = entry.hours
                /\ proposal.productivity_preservation_pct = entry.preservation_pct
                /\ proposal.compliance_gain_description = entry.description
                /\ proposal.detection_id = call.given.id
                /\ proposal.tenant_id = call.given.tenant_id
          /\ call.detection = call.given

\* C20 witness: a detection with an indicator that is no key of the mapping got
\* the proposal of the entry "unknown".
C20_Witness ==
    /\ call.fn = "generate_proposal"
    /\ call.given.business_value_indicator = "novel-use"
    /\ call.given.id = "d2"
    /\ ret # None
    /\ Val(ret).raised = None
    /\ Val(Val(ret).proposal).proposed_aumos_module = "aumos-llm-serving"
    /\ Val(Val(ret).proposal).estimated_migration_hours = 80
    /\ Val(Val(ret).proposal).detection_id = "d2"
(***************************************************************************)
(* Amnesty lifecycle: enforcement and concurrent calls                     *)
(***************************************************************************)

\* C24: a get_amnesty_status call that made the transition to enforcing and
\* returned gives status enforcing and, as enforcement_started_at, the timestamp
\* that the same call stored.
C24_TransitionReturnsStartTime ==
    (/\ last.op = "get_amnesty_status"
     /\ last.read # None
     /\ Expired(Val(last.read).row, last.at)
     /\ last.result # None)
    => /\ Val(last.result).status = "enforcing"
       /\ Val(last.result).enforcement_started_at = Some(last.at)

\* C27: every program with status enforcing has an enforcement_started_at that
\* is not earlier than its grace_period_expires_at; a get_amnesty_status call
\* that read an active program before its expiry writes nothing and returns
\* active with is_active true.
C27_NoEnforcementBeforeExpiry ==
    /\ \A i \in 1..Len(programs) :
          programs[i].status = "enforcing"
          => /\ programs[i].enforcement_started_at # None
             /\ programs[i].grace_period_expires_at # None
             /\ Val(programs[i].enforcement_started_at)
                   >= Val(programs[i].grace_period_expires_at)
    /\ (/\ last.op = "get_amnesty_status"
        /\ last.read # None
        /\ Val(last.read).row.status = "active"
        /\ last.at < Val(Val(last.read).row.grace_period_expires_at))
       => /\ last.raised = None
          /\ last.changed = FALSE
          /\ last.result # None
          /\ Val(last.result).status = "active"
          /\ Val(last.result).is_active = TRUE

\* C27 witness: a read at the very time of expiry moved the program to
\* enforcing, after an earlier read of some tenant.
C27_Witness ==
    /\ last.op = "get_amnesty_status"
    /\ last.read # None
    /\ last.at = Val(Val(last.read).row.grace_period_expires_at)
    /\ programs[Val(last.read).id].status = "enforcing"
    /\ programs[Val(last.read).id].enforcement_started_at = Some(last.at)
    /\ ncalls = 3

\* C28: no step writes enforcing on a program whose stored status is cancelled,
\* and no program has both a cancellation reason and an enforcement_started_at.
C28_CancelledNeverEnforced ==
    [][\A i \in 1..Len(programs) :
          /\ programs[i].status = "cancelled" => programs'[i].status # "enforcing"
          /\ ~(/\ programs'[i].cancellation_reason # None
               /\ programs'[i].enforcement_started_at # None)]_vars

\* C29: no step changes an enforcement_started_at that is already set, and a
\* get_amnesty_status call that read a program in status enforcing writes nothing.
C29_EnforcementStartWrittenOnce ==
    [][/\ \A i \in 1..Len(programs) :
             programs[i].enforcement_started_at # None
             => programs'[i].enforcement_started_at = programs[i].enforcement_started_at
       /\ (/\ calls' # calls
           /\ ncalls' = ncalls
           /\ last'.op = "get_amnesty_status"
           /\ last'.read # None
           /\ Val(last'.read).row.status = "enforcing")
          => programs' = programs]_vars


(***************************************************************************)
(* POST /amnesty/initiate (api/routes/shadow_ai.py)                        *)
(***************************************************************************)

\* detections stored for the tenant when the route runs
MaxStoredDetections == 2

\* AmnestyProgramService.get_affected_users over a tenant with ndetections stored
\* detections: every detection is aggregated under the key None, so the list has
\* one AffectedUser when there is any detection and none otherwise.
get_affected_users(ndetections) ==
    IF ndetections = 0
    THEN <<>>
    ELSE <<[user_id |-> None, detection_count |-> ndetections]>>

\* The route: get_affected_users, service.initiate_amnesty, then, when the new
\* program's count is 0 and users were found, update_status(program_id,
\* tenant_id, status=program.status); the response carries len(affected_users).
InitiateAmnestyRoute(t, g, ndetections) ==
    /\ Len(programs) < MaxPrograms
    /\ ncalls < MaxCalls
    /\ ncalls' = ncalls + 1
    /\ LET affected_users == get_affected_users(ndetections)
           program == NewProgram(t, g, GraceExpiry(now, g), "active", 0, now)
           id == Len(programs) + 1
           created == Create(programs, program)
       IN /\ programs' =
                 IF program.affected_user_count = 0 /\ affected_users # <<>>
                 THEN UpdateStatus(created, id, program.status, None, None, now)
                 ELSE created
          /\ last' = [op |-> "initiate_amnesty_route", tenant_id |-> t, read |-> None,
                      reason |-> None, at |-> now,
                      result |-> Some([id |-> id, row |-> program,
                                       affected_users_count |-> Len(affected_users)]),
                      raised |-> None, changed |-> TRUE]
    /\ UNCHANGED <<now, update_status_signature, calls>>

RouteNext ==
    \/ Tick /\ UNCHANGED detectVars /\ UNCHANGED callVars /\ UNCHANGED discoveryVars
    \/ \E t \in Tenants, g \in GraceChoices, n \in 0..MaxStoredDetections :
          InitiateAmnestyRoute(t, g, n) /\ UNCHANGED detectVars /\ UNCHANGED callVars /\ UNCHANGED discoveryVars

SpecRoute == Init /\ [][RouteNext]_vars

\* C25: when the initiate entry point found N affected users for the tenant, the
\* program it created is stored with affected_user_count = N once the call has
\* completed.
C25_StoredCountIsSnapshot ==
    \A i \in 1..Len(programs) :
        (last.op = "initiate_amnesty_route" /\ Val(last.result).id = i)
            => programs[i].affected_user_count = Val(last.result).affected_users_count


(***************************************************************************)
(* Aggregation and the tier of single entries                              *)
(***************************************************************************)

\* A small request to a fine-tuning path, a longer path without any fragment, an
\* inference request over the medium threshold, and an entry of another provider.
SensitivityEntries ==
    {LogEntry("api.openai.com", "10.0.0.1", Some("/v1/fine-tunes"), 100, TRUE),
     LogEntry("api.openai.com", "10.0.0.1", Some("/v1/models/gpt-4/info"), 100, FALSE),
     LogEntry("api.openai.com", "10.0.0.2", Some("/v1/chat/completions"), 5000, TRUE),
     LogEntry("api.anthropic.com", "10.0.0.1", None, 100, FALSE)}

SensitivityInit ==
    /\ AmnestyIdle
    /\ CallIdle
    /\ DiscoveryIdle
    /\ detections = None
    /\ request \in [method : {"detect_from_network_log"}, tenant_id : Tenants]
    /\ batch \in Batches(SensitivityEntries)

SpecSensitivity == SensitivityInit /\ [][AggregateNext]_vars

\* The tier classify_data_sensitivity returns for entry j of the batch alone.
EntryTier(j) ==
    classify_data_sensitivity(BatchDomain(j), PathOrEmpty(batch[j].url_path),
                              batch[j].request_size_bytes)

\* C30: the tier of a group's detection is not lower than the tier that
\* classify_data_sensitivity returns for any single entry of the group with its
\* own url_path and request_size_bytes.
C30_AggregationNeverLowers ==
    detections # None
    => \A k \in 1..Len(Val(detections)) :
          \A j \in GroupOf(Val(detections)[k].destination_domain) :
              TierRank(Val(detections)[k].estimated_data_sensitivity)
                  >= TierRank(EntryTier(j))


(***************************************************************************)
(* MigrationProposalService.estimate_total_migration                       *)
(***************************************************************************)

\* detections handed to one estimate_total_migration call
MaxDetections == 3

\* d[key] = d.get(key, 0) + 1 on a dict
DictIncrement(d, key) ==
    IF key \in DOMAIN d THEN [d EXCEPT ![key] = @ + 1] ELSE d @@ (key :> 1)

\* Variant: the quotient cut off after the second decimal place.
RoundDown(num, den) == num \div den

\* round(num / den, 2) on Decimals counted in hundredths: to the nearest
\* hundredth, a tie to the even one.
RoundHalfEven(num, den) ==
    LET q == num \div den
        r == num % den
    IN IF 2 * r < den THEN q
       ELSE IF 2 * r > den THEN q + 1
       ELSE IF q % 2 = 0 THEN q ELSE q + 1

\* The loop of estimate_total_migration from detection k on; acc holds the
\* accumulators.  An error of generate_proposal ends the call.
RECURSIVE EstimateLoop(_, _, _)
EstimateLoop(detections_in, k, acc) ==
    IF k > Len(detections_in) THEN acc
    ELSE LET out == generate_proposal(detections_in[k])
         IN IF out.raised # None
            THEN [acc EXCEPT !.raised = out.raised]
            ELSE LET proposal == Val(out.proposal)
                 IN EstimateLoop(detections_in, k + 1,
                       [proposals |-> Append(acc.proposals, proposal),
                        total_hours |-> acc.total_hours + proposal.estimated_migration_hours,
                        total_preservation |->
                            acc.total_preservation + proposal.productivity_preservation_pct,
                        complexity_breakdown |->
                            DictIncrement(acc.complexity_breakdown,
                                          proposal.migration_complexity),
                        module_breakdown |->
                            DictIncrement(acc.module_breakdown,
                                          proposal.proposed_aumos_module),
                        raised |-> None])

\* estimate_total_migration: the MigrationSummary returned, or the error raised.
estimate_total_migration(detections_in) ==
    LET acc == EstimateLoop(detections_in, 1,
                   [proposals |-> <<>>,
                    total_hours |-> 0,
                    total_preservation |-> 0,
                    complexity_breakdown |->
                        ("trivial" :> 0) @@ ("moderate" :> 0) @@ ("complex" :> 0),
                    module_breakdown |-> <<>>,
                    raised |-> None])
        average_preservation ==
            IF detections_in # <<>>
            THEN RoundHalfEven(acc.total_preservation, Len(detections_in))
            ELSE 0
    IN IF acc.raised # None
       THEN [summary |-> None, raised |-> acc.raised]
       ELSE [summary |->
                Some([total_detections |-> Len(detections_in),
                      total_estimated_hours |-> acc.total_hours,
                      complexity_breakdown |-> acc.complexity_breakdown,
                      module_breakdown |-> acc.module_breakdown,
                      average_preservation_pct |-> average_preservation,
                      proposals |-> acc.proposals]),
             raised |-> None]

\* Lists of up to MaxDetections detections: one indicator of each complexity
\* tier, the empty indicator and one that is no key of the mapping.
EstimateCalls ==
    LET ds == [id : {"d1"}, tenant_id : {"t1"},
               business_value_indicator :
                   {"code-assist", "text-generation", "video", "", "novel-use"}]
    IN {[fn |-> "estimate_total_migration", detections |-> l] :
           l \in UNION {[1..n -> ds] : n \in 0..MaxDetections}}

EstimateTotalMigration ==
    /\ call.fn = "estimate_total_migration"
    /\ ret = None
    /\ ret' = Some(estimate_total_migration(call.detections))
    /\ UNCHANGED call

EstimateInit ==
    /\ AmnestyIdle
    /\ DetectIdle
    /\ ret = None
    /\ DiscoveryIdle
    /\ call \in EstimateCalls

SpecEstimate ==
    EstimateInit
    /\ [][EstimateTotalMigration /\ UNCHANGED amnestyVars /\ UNCHANGED detectVars
                          /\ UNCHANGED discoveryVars]_vars

\* The sum of the values of a list or dict of numbers.
RECURSIVE Total(_)
Total(f) ==
    IF DOMAIN f = {} THEN 0
    ELSE LET x == CHOOSE x \in DOMAIN f : TRUE
         IN f[x] + Total([y \in DOMAIN f \ {x} |-> f[y]])

\* What C21 says about everything but the average: no error; total_detections,
\* the number of proposals and the input length agree; the hours are the sum of
\* the proposals' hours; the counts of trivial, moderate and complex, and the
\* counts per module, each sum to the input length; the empty list gives zero
\* totals and no proposal.
SummaryTotals ==
    LET n == Len(call.detections)
        summary == Val(Val(ret).summary)
        proposals == summary.proposals
    IN /\ Val(ret).raised = None
       /\ summary.total_detections = n
       /\ Len(proposals) = n
       /\ summary.total_estimated_hours
             = Total([k \in 1..n |-> proposals[k].estimated_migration_hours])
       /\ DOMAIN summary.complexity_breakdown = {"trivial", "moderate", "complex"}
       /\ Total(summary.complexity_breakdown) = n
       /\ Total(summary.module_breakdown) = n
       /\ n = 0 => /\ summary.total_estimated_hours = 0
                   /\ summary.average_preservation_pct = 0
                   /\ \A c \in DOMAIN summary.complexity_breakdown :
                         summary.complexity_breakdown[c] = 0
                   /\ DOMAIN summary.module_breakdown = {}
                   /\ proposals = <<>>

\* The sum of the proposals' preservation percentages, in hundredths.
SummaryPreservation ==
    LET proposals == Val(Val(ret).summary).proposals
    IN Total([k \in 1..Len(proposals) |-> proposals[k].productivity_preservation_pct])

\* C21 as stated: the totals above, and average_preservation_pct is the
\* unweighted mean of the proposals' percentages.
C21_SummaryAveragesExactly ==
    (call.fn = "estimate_total_migration" /\ ret # None)
    => /\ SummaryTotals
       /\ Val(Val(ret).summary).average_preservation_pct * Len(call.detections)
             = SummaryPreservation

\* C21: the totals above, and average_preservation_pct is the unweighted mean
\* of the proposals' percentages to two decimal places: it differs from the
\* mean by at most half a hundredth.
C21_SummaryAggregates ==
    (call.fn = "estimate_total_migration" /\ ret # None)
    => /\ SummaryTotals
       /\ LET n == Len(call.detections)
              d == Val(Val(ret).summary).average_preservation_pct * n
                      - SummaryPreservation
          IN 2 * d <= n /\ 2 * d >= 0 - n

\* C21 witness: three detections, one of each complexity tier, whose percentages
\* (95, 90, 80) have no mean in whole hundredths, came back as 88.33 with 34.0
\* hours.
C21_Witness ==
    /\ call.fn = "estimate_total_migration"
    /\ ret # None
    /\ Val(ret).raised = None
    /\ Len(call.detections) = 3
    /\ call.detections[1].business_value_indicator = "code-assist"
    /\ call.detections[2].business_value_indicator = "text-generation"
    /\ call.detections[3].business_value_indicator = "video"
    /\ Val(Val(ret).summary).total_estimated_hours = 340
    /\ Val(Val(ret).summary).average_preservation_pct = 8833
    /\ Val(Val(ret).summary).complexity_breakdown
          = ("trivial" :> 1) @@ ("moderate" :> 1) @@ ("complex" :> 1)


(***************************************************************************)
(* DiscoveryService, RiskAssessorService and MigrationService              *)
(* (core/services.py) over DiscoveryRepository and MigrationRepository     *)
(* (adapters/repositories.py).  Every handler is one step.  The services   *)
(* call update_status, update_risk_assessment and increment_request_count  *)
(* without the tenant_id that the repositories' methods require: as for    *)
(* the amnesty repository, update_status_signature says whether such a     *)
(* call binds or raises TypeError.                                         *)
(***************************************************************************)

\* discovery service calls in one behaviour
MaxDiscoveryCalls == 3

\* detections one scan reports
MaxScanDetections == 2

\* Variant: only migrated is terminal.
TerminalOnlyMigrated == {"migrated"}

TERMINAL_DISCOVERY_STATUSES == {"migrated", "dismissed"}

\* DiscoveryRepository.create: a row in status detected with request_count 1.
NewDiscovery(tenant_id, tool_name, detected_user_id) ==
    [tenant_id |-> tenant_id,
     tool_name |-> tool_name,
     detected_user_id |-> detected_user_id,
     status |-> "detected",
     request_count |-> 1,
     dismissed_reason |-> None]

\* DiscoveryRepository.find_existing: the query filters on tenant, tool name and
\* user and takes limit(1) without an ORDER BY, so any row of the key may come
\* back; {None} when there is none.
find_existing(store, tenant_id, tool_name, detected_user_id) ==
    LET rows == {i \in 1..Len(store) :
                    /\ store[i].tenant_id = tenant_id
                    /\ store[i].tool_name = tool_name
                    /\ store[i].detected_user_id = detected_user_id}
    IN IF rows = {} THEN {None} ELSE {Some(i) : i \in rows}

\* get_by_id(id, tenant_id) of either repository: the row, or None.
GetById(store, id, tenant_id) ==
    IF id \in 1..Len(store) /\ store[id].tenant_id = tenant_id
    THEN Some(store[id])
    ELSE None

\* DiscoveryRepository.update_status: dismissed_reason is written only when given.
DiscoveryUpdateStatus(store, discovery_id, status, dismissed_reason) ==
    [store EXCEPT ![discovery_id] =
        [@ EXCEPT !.status = status,
                  !.dismissed_reason =
                      IF dismissed_reason # None THEN dismissed_reason ELSE @]]

\* DiscoveryService._process_detection on the tables in st: every outcome that
\* find_existing allows.  request_count_delta is detection.get("request_count", 1).
process_detection(st, tenant_id, detection) ==
    {IF existing # None
        /\ st.discoveries[Val(existing)].status \notin TERMINAL_DISCOVERY_STATUSES
     THEN IF Binds(update_status_signature, None)
          THEN [st EXCEPT !.discoveries[Val(existing)].request_count = @ + 1]
          ELSE [st EXCEPT !.raised = Some("TypeError")]
     ELSE [discoveries |->
              Append(st.discoveries,
                     NewDiscovery(tenant_id, detection.tool_name,
                                  detection.detected_user_id)),
           events |-> Append(st.events, [event_type |-> "shadow_ai.discovered",
                                          discovery_id |-> Len(st.discoveries) + 1]),
           raised |-> None,
           new_count |-> st.new_count + 1]
     : existing \in find_existing(st.discoveries, tenant_id, detection.tool_name,
                                  detection.detected_user_id)}

\* The loop of initiate_scan from detection k on; an error ends the scan.
RECURSIVE ScanLoop(_, _, _, _)
ScanLoop(st, tenant_id, scanned, k) ==
    IF k > Len(scanned) \/ st.raised # None
    THEN {st}
    ELSE UNION {ScanLoop(n, tenant_id, scanned, k + 1) :
                   n \in process_detection(st, tenant_id, scanned[k])}

\* What the scanner adapter reports: one tool, with and without a detected user.
ScanDetections == [tool_name : {"chatgpt"}, detected_user_id : {None, Some("u1")}]

\* dismiss_discovery(reason: str | None)
DismissReasons == {Some("approved exception")}

\* start_migration(employee_id: uuid.UUID | None)
EmployeeIds == {None, Some("u2")}

\* DiscoveryService.initiate_scan
InitiateScan(t, scanned) ==
    /\ dcalls < MaxDiscoveryCalls
    /\ dcalls' = dcalls + 1
    /\ \E out \in ScanLoop([discoveries |-> discoveries, events |-> events,
                            raised |-> None, new_count |-> 0], t, scanned, 1) :
          /\ discoveries' = out.discoveries
          /\ events' = out.events
          /\ dlast' = [op |-> "initiate_scan", tenant_id |-> t, scanned |-> scanned,
                       raised |-> out.raised,
                       result |-> IF out.raised = None THEN Some(out.new_count) ELSE None]
    /\ UNCHANGED plans

\* DiscoveryService.dismiss_discovery
DismissDiscovery(discovery_id, t, reason) ==
    /\ dcalls < MaxDiscoveryCalls
    /\ dcalls' = dcalls + 1
    /\ LET discovery == GetById(discoveries, discovery_id, t)
           raised == IF discovery = None THEN Some("NotFoundError")
                     ELSE IF Val(discovery).status \in TERMINAL_DISCOVERY_STATUSES
                          THEN Some("ConflictError")
                     ELSE IF ~Binds(update_status_signature, None) THEN Some("TypeError")
                     ELSE None
       IN /\ discoveries' = IF raised = None
                            THEN DiscoveryUpdateStatus(discoveries, discovery_id,
                                                       "dismissed", reason)
                            ELSE discoveries
          /\ dlast' = [op |-> "dismiss_discovery", tenant_id |-> t,
                       discovery_id |-> discovery_id, read |-> discovery,
                       employee_id |-> None, raised |-> raised]
    /\ UNCHANGED <<plans, events>>

\* RiskAssessorService.assess_discovery: the risk fields that update_risk_assessment
\* writes are not kept in the rows; the status update follows it.
AssessDiscovery(discovery_id, t) ==
    /\ dcalls < MaxDiscoveryCalls
    /\ dcalls' = dcalls + 1
    /\ LET discovery == GetById(discoveries, discovery_id, t)
           raised == IF discovery = None THEN Some("NotFoundError")
                     ELSE IF ~Binds(update_status_signature, None) THEN Some("TypeError")
                     ELSE None
       IN /\ discoveries' = IF raised = None
                            THEN DiscoveryUpdateStatus(discoveries, discovery_id,
                                                       "assessed", None)
                            ELSE discoveries
          /\ dlast' = [op |-> "assess_discovery", tenant_id |-> t,
                       discovery_id |-> discovery_id, read |-> discovery,
                       employee_id |-> None, raised |-> raised]
    /\ UNCHANGED <<plans, events>>

\* MigrationService.start_migration: the plan is created before the discovery's
\* status update is called.
StartMigration(tool_id, t, employee_id) ==
    /\ dcalls < MaxDiscoveryCalls
    /\ dcalls' = dcalls + 1
    /\ LET discovery == GetById(discoveries, tool_id, t)
           migrating_employee_id ==
               IF employee_id # None THEN employee_id ELSE Val(discovery).detected_user_id
           rejected == IF discovery = None THEN Some("NotFoundError")
                       ELSE IF Val(discovery).status \in TERMINAL_DISCOVERY_STATUSES
                            THEN Some("ConflictError")
                       ELSE IF migrating_employee_id = None THEN Some("ConflictError")
                       ELSE None
           bound == Binds(update_status_signature, None)
       IN /\ plans' = IF rejected = None
                      THEN Append(plans, [tenant_id |-> t,
                                          discovery_id |-> tool_id,
                                          employee_id |-> Val(migrating_employee_id),
                                          status |-> "pending"])
                      ELSE plans
          /\ discoveries' = IF rejected = None /\ bound
                            THEN DiscoveryUpdateStatus(discoveries, tool_id, "migrating",
                                                       None)
                            ELSE discoveries
          /\ events' = IF rejected = None /\ bound
                       THEN Append(events, [event_type |-> "shadow_ai.migration_started",
                                            discovery_id |-> tool_id])
                       ELSE events
          /\ dlast' = [op |-> "start_migration", tenant_id |-> t,
                       discovery_id |-> tool_id, read |-> discovery,
                       employee_id |-> employee_id,
                       raised |-> IF rejected # None THEN rejected
                                  ELSE IF ~bound THEN Some("TypeError") ELSE None]

\* MigrationService.complete_migration
CompleteMigration(plan_id, t) ==
    /\ dcalls < MaxDiscoveryCalls
    /\ dcalls' = dcalls + 1
    /\ LET plan == GetById(plans, plan_id, t)
           raised == IF plan = None THEN Some("NotFoundError")
                     ELSE IF Val(plan).status \in {"completed", "expired", "failed"}
                          THEN Some("ConflictError")
                     ELSE IF ~Binds(update_status_signature, None) THEN Some("TypeError")
                     ELSE None
       IN /\ plans' = IF raised = None
                      THEN [plans EXCEPT ![plan_id].status = "completed"]
                      ELSE plans
          /\ discoveries' = IF raised = None
                            THEN DiscoveryUpdateStatus(discoveries, Val(plan).discovery_id,
                                                       "migrated", None)
                            ELSE discoveries
          /\ events' = IF raised = None
                       THEN Append(events, [event_type |-> "shadow_ai.migration_completed",
                                            discovery_id |-> Val(plan).discovery_id])
                       ELSE events
          /\ dlast' = [op |-> "complete_migration", tenant_id |-> t, plan_id |-> plan_id,
                       raised |-> raised]

DiscoveryInit ==
    /\ now = 0
    /\ programs = <<>>
    /\ update_status_signature \in {"tenant_id_required", "tenant_id_optional"}
    /\ calls = [i \in 1..MaxInflight |-> Idle]
    /\ last = NoCall
    /\ ncalls = 0
    /\ DetectIdle
    /\ CallIdle
    /\ DiscoveryIdle

DiscoveryFrame == UNCHANGED amnestyVars /\ UNCHANGED detectVars /\ UNCHANGED callVars

DiscoveryNext ==
    \/ \E t \in Tenants, n \in 1..MaxScanDetections : \E scanned \in [1..n -> ScanDetections] :
          InitiateScan(t, scanned) /\ DiscoveryFrame
    \/ \E i \in 1..Len(discoveries) + 1, t \in Tenants, r \in DismissReasons :
          DismissDiscovery(i, t, r) /\ DiscoveryFrame
    \/ \E i \in 1..Len(discoveries) + 1, t \in Tenants :
          AssessDiscovery(i, t) /\ DiscoveryFrame
    \/ \E i \in 1..Len(discoveries) + 1, t \in Tenants, e \in EmployeeIds :
          StartMigration(i, t, e) /\ DiscoveryFrame
    \/ \E p \in 1..Len(plans) + 1, t \in Tenants :
          CompleteMigration(p, t) /\ DiscoveryFrame

SpecDiscovery == DiscoveryInit /\ [][DiscoveryNext]_vars


(***************************************************************************)
(* Discovery lifecycle: the claims                                         *)
(***************************************************************************)

OpenDiscoveries(store, tenant_id, detection) ==
    {i \in 1..Len(store) :
        /\ store[i].tenant_id = tenant_id
        /\ store[i].tool_name = detection.tool_name
        /\ store[i].detected_user_id = detection.detected_user_id
        /\ store[i].status \notin {"migrated", "dismissed"}}

\* C23: a scan that re-detects a (tenant, tool name, detected user) for which a
\* non-terminal discovery exists increments that discovery's request count,
\* creates no discovery and publishes no event; and no key ever has two
\* non-terminal discoveries.
C23_RedetectionIsIdempotent ==
    [][/\ (/\ dcalls' # dcalls
           /\ dlast'.op = "initiate_scan"
           /\ Len(dlast'.scanned) = 1
           /\ OpenDiscoveries(discoveries, dlast'.tenant_id, dlast'.scanned[1]) # {})
          => /\ dlast'.raised = None
             /\ Len(discoveries') = Len(discoveries)
             /\ events' = events
             /\ \E i \in OpenDiscoveries(discoveries, dlast'.tenant_id, dlast'.scanned[1]) :
                   discoveries'[i].request_count = discoveries[i].request_count + 1
       /\ \A t \in Tenants, d \in ScanDetections :
             Cardinality(OpenDiscoveries(discoveries', t, d)) <= 1]_vars

\* C26: a discovery whose status is migrated or dismissed keeps that status
\* under every call of assess_discovery, dismiss_discovery, start_migration,
\* complete_migration and every scan.
C26_TerminalDiscoveriesStay ==
    [][\A i \in 1..Len(discoveries) :
          discoveries[i].status \in {"migrated", "dismissed"}
          => discoveries'[i].status = discoveries[i].status]_vars

====
